---- MODULE Spec2Model ----
(***************************************************************************)
(* Model of package validator: the Error value, its constructors and       *)
(* renderings, and the ValidatorSet registration / execution mechanism.    *)
(*                                                                         *)
(* A Go string is modelled as a sequence of text segments: "" is << >>,    *)
(* concatenation is \o.  A call that may panic yields a record             *)
(* [panics, str]; a call that may return nothing yields a sequence of at   *)
(* most one returned value.  Record constructors list their fields in the  *)
(* order TLC keeps them in.                                                *)
(***************************************************************************)
EXTENDS Integers, Sequences, FiniteSets, TLC

VARIABLES validators, call, run, made, shown

vars == <<validators, call, run, made, shown>>

setVars == <<validators, call, run>>
errVars == <<made, shown>>

(* ------------------------------ bounds --------------------------------- *)

MaxValidators == 3
MaxArgs == 2

(* --------------------------- error model ------------------------------- *)

ErrorInvalidCSV == <<"CSVFileNotValid">>
WarningFieldMissing == <<"OptionalFieldNotFound">>
ErrorFieldMissing == <<"MandatoryFieldNotFound">>
ErrorUnsupportedType == <<"FieldTypeNotSupported">>
ErrorInvalidParse == <<"Unmarshall/ParseError">>
ErrorIO == <<"FileReadError">>
ErrorFailedValidation == <<"ValidationFailed">>
ErrorInvalidOperation == <<"OperationFailed">>
ErrorInvalidDefaultChannel == <<"DefaultChannelNotValid">>

Error(type, field, badValue, detail) ==
    [Type |-> type, Field |-> field, BadValue |-> badValue, Detail |-> detail]

InvalidCSV(detail) == Error(ErrorInvalidCSV, <<>>, <<>>, detail)

InvalidDefaultChannel(detail, value) ==
    Error(ErrorInvalidDefaultChannel, <<>>, value, detail)

OptionalFieldMissing(detail, field, value) ==
    Error(WarningFieldMissing, field, value, detail)

MandatoryFieldMissing(detail, field, value) ==
    Error(ErrorFieldMissing, field, value, detail)

UnsupportedType(detail) == Error(ErrorUnsupportedType, <<>>, <<>>, detail)

InvalidParseFieldSwapped(detail, value) ==
    Error(ErrorInvalidParse, value, <<>>, detail)

InvalidParse(detail, value) == Error(ErrorInvalidParse, <<>>, value, detail)

IOError(detail, value) == Error(ErrorIO, <<>>, value, detail)

FailedValidation(detail, value) ==
    Error(ErrorFailedValidation, <<>>, value, detail)

InvalidOperationValueDropped(detail, value) ==
    Error(ErrorInvalidOperation, <<>>, <<>>, detail)

InvalidOperation(detail, value) ==
    Error(ErrorInvalidOperation, <<>>, value, detail)

\* The one-argument InvalidOperation of pkg/validate/validator.
InvalidOperationDetail(detail) ==
    Error(ErrorInvalidOperation, <<>>, <<>>, detail)

Returns(s) == [panics |-> FALSE, str |-> s]
Panics(s) == [panics |-> TRUE, str |-> s]

ErrorType_String(t) ==
    CASE t = ErrorInvalidCSV -> Returns(<<"CSV file not valid">>)
      [] t = WarningFieldMissing -> Returns(<<"Optional field not found">>)
      [] t = ErrorFieldMissing -> Returns(<<"Mandatory field not found">>)
      [] t = ErrorUnsupportedType -> Returns(<<"Field type not supported">>)
      [] t = ErrorInvalidParse -> Returns(<<"Unmarshall/Parse error">>)
      [] t = ErrorIO -> Returns(<<"File read error">>)
      [] t = ErrorFailedValidation -> Returns(<<"Validation failed">>)
      [] t = ErrorInvalidOperation -> Returns(<<"Operation failed">>)
      [] t = ErrorInvalidDefaultChannel -> Returns(<<"Default channel not found">>)
      [] OTHER -> Panics(<<"Unrecognized validation error: ">> \o t)

Error_Error(err) == Returns(err.Detail)

Error_String(err) == Error_Error(err)

\* Error.String of pkg/validate/validator: the Type is formatted with %s and
\* ErrorType has no String method there, so its underlying string is printed.
Error_StringSprintf(err) ==
    Returns(<<"Error type: ">> \o err.Type \o <<" | Field: ">> \o err.Field
            \o <<" | Value: ">> \o err.BadValue
            \o <<" | Detail: ">> \o err.Detail)

(* --------------------------- validator set ----------------------------- *)

\* A Validator is an external value with a Name() and a Validate(); id tells
\* apart two instances that answer the same name.
Validator(name, id) == [name |-> name, id |-> id]

Validators ==
    { Validator("csv", 1), Validator("csv", 2), Validator("channel", 3) }

ManifestResult(name, errors, warnings) ==
    [Name |-> name, Errors |-> errors, Warnings |-> warnings]

ResultA ==
    ManifestResult("my-operator.v1.0.0",
                   <<InvalidCSV(<<"CSV missing required field">>)>>, <<>>)

ResultB ==
    ManifestResult("my-operator.v1.0.0", <<>>,
                   <<InvalidDefaultChannel(<<"channel not declared">>, <<"alpha">>)>>)

\* What one call of v.Validate() does: return a list of results, or panic.
Outcomes ==
    { [panics |-> FALSE, results |-> <<>>],
      [panics |-> FALSE, results |-> <<ResultA>>],
      [panics |-> FALSE, results |-> <<ResultB, ResultA>>],
      [panics |-> TRUE, results |-> <<>>] }

SeqsUpTo(S, n) == UNION { [1..k -> S] : k \in 0..n }

ArgLists == SeqsUpTo(Validators, MaxArgs)

RECURSIVE AddLoopNoSeen(_, _, _, _)
AddLoopNoSeen(cur, vs, i, seenNames) ==
    IF i > Len(vs) THEN cur
    ELSE AddLoopNoSeen(Append(cur, vs[i]), vs, i + 1, seenNames)

RECURSIVE AddLoop(_, _, _, _)
AddLoop(cur, vs, i, seenNames) ==
    IF i > Len(vs) THEN cur
    ELSE IF vs[i].name \notin seenNames
         THEN AddLoop(Append(cur, vs[i]), vs, i + 1, seenNames \cup {vs[i].name})
         ELSE AddLoop(cur, vs, i + 1, seenNames)

\* set.validators after set.AddValidators(vs...): seenNames starts empty in
\* every call.
AddValidatorsTo(cur, vs) == AddLoop(cur, vs, 1, {})

NewValidatorSet(vs) == AddValidatorsTo(<<>>, vs)

Exit(set, panicked, allResults, invoked) ==
    [validators |-> set, panicked |-> panicked,
     allResults |-> allResults, invoked |-> invoked]


RECURSIVE ValidateLoopRecovers(_, _, _, _, _)
ValidateLoopRecovers(set, outcomes, i, allResults, invoked) ==
    IF i > Len(set) THEN Exit(set, FALSE, allResults, invoked)
    ELSE IF outcomes[i].panics
         THEN Exit(set, FALSE, allResults, Append(invoked, set[i]))
         ELSE ValidateLoopRecovers(set, outcomes, i + 1,
                                   allResults \o outcomes[i].results,
                                   Append(invoked, set[i]))

RECURSIVE ValidateLoopPrepends(_, _, _, _, _)
ValidateLoopPrepends(set, outcomes, i, allResults, invoked) ==
    IF i > Len(set) THEN Exit(set, FALSE, allResults, invoked)
    ELSE IF outcomes[i].panics
         THEN Exit(set, TRUE, allResults, Append(invoked, set[i]))
         ELSE ValidateLoopPrepends(set, outcomes, i + 1,
                                   outcomes[i].results \o allResults,
                                   Append(invoked, set[i]))

RECURSIVE ValidateLoopDrains(_, _, _, _, _)
ValidateLoopDrains(set, outcomes, i, allResults, invoked) ==
    IF i > Len(set) THEN Exit(<<>>, FALSE, allResults, invoked)
    ELSE IF outcomes[i].panics
         THEN Exit(SubSeq(set, i, Len(set)), TRUE, allResults,
                   Append(invoked, set[i]))
         ELSE ValidateLoopDrains(set, outcomes, i + 1,
                                 allResults \o outcomes[i].results,
                                 Append(invoked, set[i]))

\* The body of ValidateAll: outcomes[i] is what the i-th call of Validate()
\* of this run does (see RunsOf).  set is the receiver's copy of the validators; a panic
\* of Validate() is not recovered and leaves the loop and the function.
RECURSIVE ValidateLoop(_, _, _, _, _)
ValidateLoop(set, outcomes, i, allResults, invoked) ==
    IF i > Len(set) THEN Exit(set, FALSE, allResults, invoked)
    ELSE IF outcomes[i].panics
         THEN Exit(set, TRUE, allResults, Append(invoked, set[i]))
         ELSE ValidateLoop(set, outcomes, i + 1,
                           allResults \o outcomes[i].results,
                           Append(invoked, set[i]))

LastReturned ==
    IF run # <<>> /\ run[1].returned # <<>> THEN run[1].returned[1] ELSE <<>>

ValidateAllRunKeepsResults(set, outcomes) ==
    ValidateLoop(set, outcomes, 1, LastReturned, <<>>)

\* allResults is a named result: nil at entry of every call.
ValidateAllRun(set, outcomes) == ValidateLoop(set, outcomes, 1, <<>>, <<>>)

(* ------------------------------ actions -------------------------------- *)

Called(op, vs) == [vs |-> vs, op |-> op]

Init ==
    /\ \E vs \in ArgLists :
          /\ validators = NewValidatorSet(vs)
          /\ call = Called("NewValidatorSet", vs)
    /\ run = <<>>
    /\ made = <<>>
    /\ shown = <<>>

AddValidators ==
    \E vs \in ArgLists :
       LET new == AddValidatorsTo(validators, vs) IN
          /\ Len(new) <= MaxValidators
          /\ validators' = new
          /\ call' = Called("AddValidators", vs)
          /\ run' = <<>>
          /\ UNCHANGED errVars

\* The calls of Validate() that one run over n validators can make, with
\* what each does: every call but the last returns, and the run makes all n
\* calls unless the last one it makes panics.
RunsOf(n) ==
    { o \in SeqsUpTo(Outcomes, n) :
         /\ \A i \in 1..(Len(o) - 1) : ~o[i].panics
         /\ Len(o) < n => o # <<>> /\ o[Len(o)].panics }

ValidateAll ==
    /\ \E outcomes \in RunsOf(Len(validators)) :
          LET x == ValidateAllRun(validators, outcomes) IN
             /\ validators' = x.validators
             /\ call' = Called("ValidateAll", <<>>)
             /\ run' = << [panicked |-> x.panicked,
                           invoked |-> x.invoked,
                           outcomes |-> outcomes,
                           returned |-> IF x.panicked THEN <<>>
                                        ELSE <<x.allResults>>,
                           repeat |-> /\ run # <<>>
                                      /\ run[1].outcomes = outcomes] >>
    /\ UNCHANGED errVars

Next == AddValidators \/ ValidateAll

Spec == Init /\ [][Next]_vars

(* ------------------------ error model actions -------------------------- *)

Details == { <<>>, <<"detail-1">>, <<"detail-2">> }
Fields == { <<>>, <<"spec.displayName">> }
Values == { <<>>, <<"alpha">> }

DefinedTypes ==
    { ErrorInvalidCSV, WarningFieldMissing, ErrorFieldMissing,
      ErrorUnsupportedType, ErrorInvalidParse, ErrorIO, ErrorFailedValidation,
      ErrorInvalidOperation, ErrorInvalidDefaultChannel }

\* ErrorType is a string type: any string converts to it.
ErrorTypes == DefinedTypes \cup { <<>>, <<"Bogus">> }

Made(ctor, detail, field, value, err) ==
    << [field |-> field, detail |-> detail, value |-> value, err |-> err,
        ctor |-> ctor] >>

Shown(fn, type, out) == << [type |-> type, fn |-> fn, out |-> out] >>

InitErr ==
    /\ validators = NewValidatorSet(<<>>)
    /\ call = Called("NewValidatorSet", <<>>)
    /\ run = <<>>
    /\ made = <<>>
    /\ shown = <<>>

CallInvalidCSV ==
    \E d \in Details :
       /\ made' = Made("InvalidCSV", d, <<>>, <<>>, InvalidCSV(d))
       /\ shown' = <<>>
       /\ UNCHANGED setVars

CallInvalidDefaultChannel ==
    \E d \in Details, v \in Values :
       /\ made' = Made("InvalidDefaultChannel", d, <<>>, v, InvalidDefaultChannel(d, v))
       /\ shown' = <<>>
       /\ UNCHANGED setVars

CallOptionalFieldMissing ==
    \E d \in Details, f \in Fields, v \in Values :
       /\ made' = Made("OptionalFieldMissing", d, f, v, OptionalFieldMissing(d, f, v))
       /\ shown' = <<>>
       /\ UNCHANGED setVars

CallMandatoryFieldMissing ==
    \E d \in Details, f \in Fields, v \in Values :
       /\ made' = Made("MandatoryFieldMissing", d, f, v, MandatoryFieldMissing(d, f, v))
       /\ shown' = <<>>
       /\ UNCHANGED setVars

CallUnsupportedType ==
    \E d \in Details :
       /\ made' = Made("UnsupportedType", d, <<>>, <<>>, UnsupportedType(d))
       /\ shown' = <<>>
       /\ UNCHANGED setVars

CallInvalidParse ==
    \E d \in Details, v \in Values :
       /\ made' = Made("InvalidParse", d, <<>>, v, InvalidParse(d, v))
       /\ shown' = <<>>
       /\ UNCHANGED setVars

CallIOError ==
    \E d \in Details, v \in Values :
       /\ made' = Made("IOError", d, <<>>, v, IOError(d, v))
       /\ shown' = <<>>
       /\ UNCHANGED setVars

CallFailedValidation ==
    \E d \in Details, v \in Values :
       /\ made' = Made("FailedValidation", d, <<>>, v, FailedValidation(d, v))
       /\ shown' = <<>>
       /\ UNCHANGED setVars

CallInvalidOperation ==
    \E d \in Details, v \in Values :
       /\ made' = Made("InvalidOperation", d, <<>>, v, InvalidOperation(d, v))
       /\ shown' = <<>>
       /\ UNCHANGED setVars

CallInvalidOperationDetail ==
    \E d \in Details :
       /\ made' = Made("InvalidOperation(detail)", d, <<>>, <<>>, InvalidOperationDetail(d))
       /\ shown' = <<>>
       /\ UNCHANGED setVars

\* An Error written as a struct literal: its fields are exported.
ErrorLiteral ==
    \E t \in ErrorTypes, d \in Details, f \in Fields, v \in Values :
       /\ made' = Made("Error{}", d, f, v, Error(t, f, v, d))
       /\ shown' = <<>>
       /\ UNCHANGED setVars

CallErrorError ==
    /\ made # <<>>
    /\ shown' = Shown("Error.Error", made[1].err.Type, Error_Error(made[1].err))
    /\ UNCHANGED <<made, validators, call, run>>

CallErrorString ==
    /\ made # <<>>
    /\ shown' = Shown("Error.String", made[1].err.Type, Error_String(made[1].err))
    /\ UNCHANGED <<made, validators, call, run>>

CallErrorStringSprintf ==
    /\ made # <<>>
    /\ shown' = Shown("Error.String(Sprintf)", made[1].err.Type,
                      Error_StringSprintf(made[1].err))
    /\ UNCHANGED <<made, validators, call, run>>

CallErrorTypeString ==
    /\ \E t \in ErrorTypes :
          shown' = Shown("ErrorType.String", t, ErrorType_String(t))
    /\ UNCHANGED <<made, validators, call, run>>

NextErr ==
    \/ CallInvalidCSV
    \/ CallInvalidDefaultChannel
    \/ CallOptionalFieldMissing
    \/ CallMandatoryFieldMissing
    \/ CallUnsupportedType
    \/ CallInvalidParse
    \/ CallIOError
    \/ CallFailedValidation
    \/ CallInvalidOperation
    \/ CallInvalidOperationDetail
    \/ ErrorLiteral
    \/ CallErrorError
    \/ CallErrorString
    \/ CallErrorStringSprintf
    \/ CallErrorTypeString

SpecErr == InitErr /\ [][NextErr]_vars


(* ------------------------ validator set properties --------------------- *)

Range(s) == { s[i] : i \in 1..Len(s) }

Count(s, x) == Cardinality({ i \in 1..Len(s) : s[i] = x })

IsPrefix(s, t) == Len(s) <= Len(t) /\ SubSeq(t, 1, Len(s)) = s

\* C1: no two registered validators share a name, and a ValidateAll that
\* returns has invoked every registered validator exactly once.
C1_UniqueNames ==
    /\ \A i, j \in 1..Len(validators) :
          validators[i].name = validators[j].name => i = j
    /\ (run # <<>> /\ ~run[1].panicked) =>
          \A v \in Range(validators) : Count(run[1].invoked, v) = 1

RECURSIVE SumLen(_, _)
SumLen(outcomes, n) ==
    IF n = 0 THEN 0 ELSE SumLen(outcomes, n - 1) + Len(outcomes[n].results)

NoPanic(outcomes) == \A i \in DOMAIN outcomes : ~outcomes[i].panics

\* C2: when every Validate() returns, ValidateAll invokes the registered
\* validators once each in registration order and returns R1 ++ ... ++ Rn:
\* result j of validator i sits at position Len(R1) + ... + Len(R(i-1)) + j,
\* and nothing else is in the output.
C2_Concatenation ==
    (run # <<>> /\ NoPanic(run[1].outcomes)) =>
       LET r == run[1]
           n == Len(validators)
       IN /\ ~r.panicked
          /\ r.invoked = validators
          /\ Len(r.returned) = 1
          /\ Len(r.returned[1]) = SumLen(r.outcomes, n)
          /\ \A i \in 1..n : \A j \in 1..Len(r.outcomes[i].results) :
                r.returned[1][SumLen(r.outcomes, i - 1) + j]
                   = r.outcomes[i].results[j]

\* Two validators returned a result for the same artifact and both results
\* are in the output, the first validator's before the second's.
C2_Witness ==
    /\ run # <<>>
    /\ Len(validators) = 2
    /\ run[1].outcomes = << [panics |-> FALSE, results |-> <<ResultB, ResultA>>],
                            [panics |-> FALSE, results |-> <<ResultA>>] >>
    /\ run[1].returned = << <<ResultB, ResultA, ResultA>> >>

FirstOfName(vs, i) == \A j \in 1..(i - 1) : vs[j].name # vs[i].name

RECURSIVE KeepFirst(_, _)
KeepFirst(vs, i) ==
    IF i = 0 THEN <<>>
    ELSE IF FirstOfName(vs, i) THEN Append(KeepFirst(vs, i - 1), vs[i])
         ELSE KeepFirst(vs, i - 1)

\* C3: AddValidators only appends: the registered sequence before the call
\* is a prefix of the one after it, and what is appended is, in argument
\* order, the arguments that are the earliest of their name in the call.
C3_AppendOnly ==
    [][ call'.op = "AddValidators" =>
           /\ IsPrefix(validators, validators')
           /\ SubSeq(validators', Len(validators) + 1, Len(validators'))
                 = KeepFirst(call'.vs, Len(call'.vs)) ]_vars

\* AddValidators(csv#2, csv#1) on a non-empty set appended csv#2 alone.
C3_Witness ==
    /\ call.op = "AddValidators"
    /\ call.vs = <<Validator("csv", 2), Validator("csv", 1)>>
    /\ Len(validators) = 2
    /\ validators[1] = Validator("channel", 3)
    /\ validators[2] = Validator("csv", 2)

\* C4: ValidateAll leaves the registered validators as they were.
C4_ValidateAllKeepsSet ==
    [][ call'.op = "ValidateAll" => validators' = validators ]_vars

\* ValidateAll returned results from a set of three validators.
C4_Witness ==
    /\ call.op = "ValidateAll"
    /\ Len(validators) = 3
    /\ run # <<>>
    /\ run[1].returned # <<>>
    /\ Len(run[1].returned[1]) >= 3

\* C5: a ValidateAll that follows a ValidateAll with no AddValidators in
\* between, every validator returning what it returned the first time,
\* returns what the first one returned.
C5_Idempotent ==
    [][ (run' # <<>> /\ run'[1].repeat /\ NoPanic(run'[1].outcomes)) =>
           run'[1].returned = run[1].returned ]_vars

\* The second of two runs with the same validator outputs returned results.
C5_Witness ==
    /\ run # <<>>
    /\ Len(validators) = 2
    /\ run[1].repeat
    /\ run[1].returned # <<>>
    /\ Len(run[1].returned[1]) >= 2

FirstPanic(outcomes) ==
    CHOOSE k \in DOMAIN outcomes :
       outcomes[k].panics /\ \A j \in 1..(k - 1) : ~outcomes[j].panics

\* C10: when the k-th Validate() panics, ValidateAll panics: validators
\* 1..k are the only ones invoked, nothing is returned, and the registered
\* validators are unchanged.
C10_PanicPropagates ==
    [][ (call'.op = "ValidateAll" /\ run' # <<>> /\ ~NoPanic(run'[1].outcomes)) =>
           LET k == FirstPanic(run'[1].outcomes) IN
              /\ run'[1].panicked
              /\ run'[1].invoked = SubSeq(validators, 1, k)
              /\ run'[1].returned = <<>>
              /\ validators' = validators ]_vars

\* The second of three validators panicked after the first returned results.
C10_Witness ==
    /\ run # <<>>
    /\ Len(validators) = 3
    /\ run[1].outcomes[1] = [panics |-> FALSE, results |-> <<ResultA>>]
    /\ Len(run[1].outcomes) = 2
    /\ run[1].outcomes[2].panics
    /\ run[1].panicked
    /\ Len(run[1].invoked) = 2
    /\ run[1].returned = <<>>

(* ------------------------- error model properties ---------------------- *)

Contains(s, sub) ==
    \E i \in 0..(Len(s) - Len(sub)) : SubSeq(s, i + 1, i + Len(sub)) = sub

Constructed == made # <<>> /\ made[1].ctor # "Error{}"

FieldConstructors == { "OptionalFieldMissing", "MandatoryFieldMissing" }

NoValueConstructors ==
    { "InvalidCSV", "UnsupportedType", "InvalidOperation(detail)" }

FieldKinds == { WarningFieldMissing, ErrorFieldMissing }

DocumentedKind(ctor) ==
    CASE ctor = "InvalidCSV" -> ErrorInvalidCSV
      [] ctor = "InvalidDefaultChannel" -> ErrorInvalidDefaultChannel
      [] ctor = "OptionalFieldMissing" -> WarningFieldMissing
      [] ctor = "MandatoryFieldMissing" -> ErrorFieldMissing
      [] ctor = "UnsupportedType" -> ErrorUnsupportedType
      [] ctor = "InvalidParse" -> ErrorInvalidParse
      [] ctor = "IOError" -> ErrorIO
      [] ctor = "FailedValidation" -> ErrorFailedValidation
      [] ctor = "InvalidOperation" -> ErrorInvalidOperation
      [] ctor = "InvalidOperation(detail)" -> ErrorInvalidOperation

VerboseRenderings == { "Error.String", "Error.String(Sprintf)" }

\* C7: the verbose rendering of a constructed Error returns a string that
\* contains the kind's canonical description, the field, the badValue and
\* the detail, and differs from the terse rendering.
C7_VerboseRendering ==
    (Constructed /\ shown # <<>> /\ shown[1].fn \in VerboseRenderings) =>
       LET e == made[1].err
           o == shown[1].out
       IN /\ ~o.panics
          /\ Contains(o.str, ErrorType_String(e.Type).str)
          /\ Contains(o.str, e.Field)
          /\ Contains(o.str, e.BadValue)
          /\ Contains(o.str, e.Detail)
          /\ o # Error_Error(e)

\* C8: rendering one of the nine defined kinds returns its canonical
\* description; rendering any other kind panics, and so does the verbose
\* rendering of an Error that carries such a kind.
C8_UnknownKindPanics ==
    /\ (shown # <<>> /\ shown[1].fn = "ErrorType.String") =>
          /\ shown[1].type \in DefinedTypes =>
                /\ ~shown[1].out.panics
                /\ shown[1].out.str # <<>>
          /\ shown[1].type \notin DefinedTypes => shown[1].out.panics
    /\ (shown # <<>> /\ shown[1].fn \in VerboseRenderings
          /\ shown[1].type \notin DefinedTypes) => shown[1].out.panics

\* C9 as stated: the field of a constructed Error is empty exactly when its
\* kind is not one of the two field-missing kinds.
C9_FieldEmptyIff ==
    Constructed =>
       (made[1].err.Field = <<>> <=> made[1].err.Type \notin FieldKinds)

\* C9 as amended: the field of a constructed Error is empty when its kind is
\* not one of the two field-missing kinds, and is the passed field, empty or
\* not, when it is.
C9_FieldOfKind ==
    Constructed =>
       /\ made[1].err.Type \notin FieldKinds => made[1].err.Field = <<>>
       /\ made[1].err.Type \in FieldKinds => made[1].err.Field = made[1].field

\* OptionalFieldMissing was passed an empty field.
C9_Witness ==
    /\ made # <<>>
    /\ made[1].ctor = "OptionalFieldMissing"
    /\ made[1].field = <<>>
    /\ made[1].value = <<"alpha">>
    /\ made[1].err.Field = <<>>

====
